---- MODULE Spec2Model ----
(***************************************************************************)
(* skconfig.Configuration: the key-resolution and macro-substitution       *)
(* engine of src/src/skconfig/config.py.                                   *)
(*                                                                         *)
(* Python values are tagged records [t |-> tag, <tag> |-> payload]:        *)
(*   null, str (a string), int, float (<<mantissa, scale>>, a decimal),    *)
(*   date (<<y, m, d>>), datetime (<<y, m, d, hh, mi, ss>>),               *)
(*   seq (a tuple of values), map (a tuple of <<key, value>> pairs in      *)
(*   insertion order, as a Python dict iterates).                          *)
(* A raised exception is [t |-> "raise", raise |-> <exception class>].     *)
(***************************************************************************)
EXTENDS Integers, Sequences, FiniteSets, TLC

VARIABLES regs, environ, calls, last

vars == <<regs, environ, calls, last>>

(***************************************************************************)
(* Values                                                                  *)
(***************************************************************************)
None == [t |-> "null", null |-> 0]
S(s) == [t |-> "str", str |-> s]
I(n) == [t |-> "int", int |-> n]
Fl(m, e) == [t |-> "float", float |-> <<m, e>>]
Date(y, m, d) == [t |-> "date", date |-> <<y, m, d>>]
DateTime(y, m, d, hh, mi, ss) == [t |-> "datetime", datetime |-> <<y, m, d, hh, mi, ss>>]
List(items) == [t |-> "seq", seq |-> items]
Dict(pairs) == [t |-> "map", map |-> pairs]
Raise(e) == [t |-> "raise", raise |-> e]

(***************************************************************************)
(* Bounds of the model                                                     *)
(***************************************************************************)
\* nesting of _value calls after which Python raises RecursionError
MaxDepth == 3
\* passes of the macro loop after which a lookup counts as not returning
MaxPasses == 4

\* Configuration objects in a run
MaxRegs == 2
\* calls in a run that change an object or the environment
MaxCalls == 2

\* the outcome of a lookup whose macro loop is still running after MaxPasses passes
Diverges == [t |-> "diverge", diverge |-> 0]

IsRaise(x) == x.t = "raise"
IsNone(x) == x.t = "null"

Min(set) == CHOOSE x \in set : \A y \in set : x <= y

\* the least of a set of positions, 0 for none
FirstOf(hits) == IF hits = {} THEN 0 ELSE Min(hits)

(***************************************************************************)
(* Python str methods                                                      *)
(***************************************************************************)
\* str.find(pat, from), 1-based; 0 when Python returns -1
Find(s, pat, from) ==
  FirstOf({i \in from..(Len(s) - Len(pat) + 1) : SubSeq(s, i, i + Len(pat) - 1) = pat})

\* s with the n characters at i replaced by new; s when i = 0
ReplaceAt(s, i, n, new) ==
  IF i = 0 THEN s ELSE SubSeq(s, 1, i - 1) \o new \o SubSeq(s, i + n, Len(s))

\* str.replace(old, new, 2): the first two occurrences of old replaced
ReplaceFirstTwo(s, old, new) ==
  ReplaceAt(ReplaceAt(s, Find(s, old, Find(s, old, 1) + Len(old)), Len(old), new),
            Find(s, old, 1), Len(old), new)

\* str.replace(old, new, 1)
ReplaceFirst(s, old, new) == ReplaceAt(s, Find(s, old, 1), Len(old), new)

\* str.replace(old, new) for a non-empty old
RECURSIVE ReplaceAll(_, _, _)
ReplaceAll(s, old, new) ==
  IF old = "" \/ Len(s) < Len(old) THEN s
  ELSE IF SubSeq(s, 1, Len(old)) = old
       THEN new \o ReplaceAll(SubSeq(s, Len(old) + 1, Len(s)), old, new)
       ELSE SubSeq(s, 1, 1) \o ReplaceAll(SubSeq(s, 2, Len(s)), old, new)

\* str.split(delim) for a non-empty delim
RECURSIVE Split(_, _)
SplitAt(s, delim, i) ==
  IF i = 0 THEN <<s>>
  ELSE <<SubSeq(s, 1, i - 1)>> \o Split(SubSeq(s, i + Len(delim), Len(s)), delim)

Split(s, delim) == SplitAt(s, delim, Find(s, delim, 1))

IsSpace(c) == c = " "

\* str.strip()
RECURSIVE Strip(_)
Strip(s) ==
  IF s = "" THEN s
  ELSE IF IsSpace(SubSeq(s, 1, 1)) THEN Strip(SubSeq(s, 2, Len(s)))
  ELSE IF IsSpace(SubSeq(s, Len(s), Len(s))) THEN Strip(SubSeq(s, 1, Len(s) - 1))
  ELSE s

(***************************************************************************)
(* Python number conversions: int(x), float(x), str(x)                     *)
(***************************************************************************)
Digits == <<"0", "1", "2", "3", "4", "5", "6", "7", "8", "9">>

IsDigit(c) == \E i \in 1..10 : Digits[i] = c

DigitVal(c) == (CHOOSE i \in 1..10 : Digits[i] = c) - 1

AllDigits(s) == Len(s) > 0 /\ \A i \in 1..Len(s) : IsDigit(SubSeq(s, i, i))

RECURSIVE DigitsVal(_)
DigitsVal(s) ==
  IF s = "" THEN 0
  ELSE 10 * DigitsVal(SubSeq(s, 1, Len(s) - 1)) + DigitVal(SubSeq(s, Len(s), Len(s)))

RECURSIVE Pow10(_)
Pow10(e) == IF e = 0 THEN 1 ELSE 10 * Pow10(e - 1)

RECURSIVE NatStr(_)
NatStr(n) == IF n < 10 THEN Digits[n + 1] ELSE NatStr(n \div 10) \o Digits[(n % 10) + 1]

IntStr(n) == IF n < 0 THEN "-" \o NatStr(-n) ELSE NatStr(n)

\* zero-padded decimal of width w
RECURSIVE Pad(_, _)
Pad(s, w) == IF Len(s) >= w THEN s ELSE Pad("0" \o s, w)

\* the sign and the unsigned rest of a numeric literal
SignOf(s) == IF Len(s) > 0 /\ SubSeq(s, 1, 1) = "-" THEN -1 ELSE 1
Unsigned(s) ==
  IF Len(s) > 0 /\ SubSeq(s, 1, 1) \in {"-", "+"} THEN SubSeq(s, 2, Len(s)) ELSE s

\* int(<str>)
SignedInt(sign, body) ==
  IF AllDigits(body) THEN I(sign * DigitsVal(body)) ELSE Raise("ValueError")

ParseInt(s) == SignedInt(SignOf(Strip(s)), Unsigned(Strip(s)))

\* a decimal with its trailing fraction zeros removed
RECURSIVE NormFloat(_, _)
NormFloat(m, e) ==
  IF e > 0 /\ m % 10 = 0 THEN NormFloat(m \div 10, e - 1) ELSE Fl(m, e)

\* float(<str>) for decimal literals  [sign] digits [. digits]
DecimalOf(sign, ip, fp) ==
  IF /\ ip = "" \/ AllDigits(ip)
     /\ fp = "" \/ AllDigits(fp)
     /\ ip # "" \/ fp # ""
  THEN NormFloat(sign * (DigitsVal(ip) * Pow10(Len(fp)) + DigitsVal(fp)), Len(fp))
  ELSE Raise("ValueError")

DecimalAt(sign, body, dot) ==
  IF dot = 0 THEN DecimalOf(sign, body, "")
  ELSE DecimalOf(sign, SubSeq(body, 1, dot - 1), SubSeq(body, dot + 1, Len(body)))

Decimal(sign, body) == DecimalAt(sign, body, Find(body, ".", 1))

ParseFloat(s) == Decimal(SignOf(Strip(s)), Unsigned(Strip(s)))

\* truncation toward zero
Trunc(m, e) == IF m < 0 THEN -((-m) \div Pow10(e)) ELSE m \div Pow10(e)

\* int(x)
PyInt(x) ==
  CASE x.t = "str" -> ParseInt(x.str)
    [] x.t = "int" -> x
    [] x.t = "float" -> I(Trunc(x.float[1], x.float[2]))
    [] OTHER -> Raise("TypeError")

\* float(x)
PyFloat(x) ==
  CASE x.t = "str" -> ParseFloat(x.str)
    [] x.t = "int" -> Fl(x.int, 0)
    [] x.t = "float" -> x
    [] OTHER -> Raise("TypeError")

FloatStr(m, e) ==
  LET a == IF m < 0 THEN -m ELSE m
      sign == IF m < 0 THEN "-" ELSE ""
  IN sign \o NatStr(a \div Pow10(e)) \o "."
       \o (IF e = 0 THEN "0" ELSE Pad(NatStr(a % Pow10(e)), e))

(***************************************************************************)
(* datetime.date / datetime.datetime                                       *)
(***************************************************************************)
IsLeap(y) == (y % 4 = 0 /\ y % 100 # 0) \/ y % 400 = 0

DaysInMonth(y, m) ==
  CASE m \in {4, 6, 9, 11} -> 30
    [] m = 2 -> IF IsLeap(y) THEN 29 ELSE 28
    [] OTHER -> 31

ValidDate(y, m, d) == y >= 1 /\ m \in 1..12 /\ d \in 1..DaysInMonth(y, m)

\* the YYYY-MM-DD prefix of s is an ISO date
IsoDatePart(s) ==
  /\ Len(s) >= 10
  /\ AllDigits(SubSeq(s, 1, 4)) /\ SubSeq(s, 5, 5) = "-"
  /\ AllDigits(SubSeq(s, 6, 7)) /\ SubSeq(s, 8, 8) = "-"
  /\ AllDigits(SubSeq(s, 9, 10))
  /\ ValidDate(DigitsVal(SubSeq(s, 1, 4)), DigitsVal(SubSeq(s, 6, 7)), DigitsVal(SubSeq(s, 9, 10)))

\* s has the shape HH[:MM[:SS]]
IsoTimeShape(s) ==
  /\ Len(s) \in {2, 5, 8}
  /\ AllDigits(SubSeq(s, 1, 2))
  /\ Len(s) >= 5 => (SubSeq(s, 3, 3) = ":" /\ AllDigits(SubSeq(s, 4, 5)))
  /\ Len(s) >= 8 => (SubSeq(s, 6, 6) = ":" /\ AllDigits(SubSeq(s, 7, 8)))

TimeInRange(tm) == IF tm[1] < 24 /\ tm[2] < 60 /\ tm[3] < 60 THEN tm ELSE <<>>

\* the time part HH[:MM[:SS]] of an ISO datetime, as <<hh, mi, ss>>, or <<>> when malformed
IsoTimePart(s) ==
  IF ~IsoTimeShape(s) THEN <<>>
  ELSE TimeInRange(<<DigitsVal(SubSeq(s, 1, 2)),
                     IF Len(s) >= 5 THEN DigitsVal(SubSeq(s, 4, 5)) ELSE 0,
                     IF Len(s) >= 8 THEN DigitsVal(SubSeq(s, 7, 8)) ELSE 0>>)

\* date.fromisoformat(x)
DateFromIso(x) ==
  IF x.t # "str" THEN Raise("TypeError")
  ELSE IF Len(x.str) = 10 /\ IsoDatePart(x.str)
       THEN Date(DigitsVal(SubSeq(x.str, 1, 4)), DigitsVal(SubSeq(x.str, 6, 7)), DigitsVal(SubSeq(x.str, 9, 10)))
       ELSE Raise("ValueError")

\* the datetime of an ISO date s and a time part tm
DateTimeAt(s, tm) ==
  IF tm = <<>> THEN Raise("ValueError")
  ELSE DateTime(DigitsVal(SubSeq(s, 1, 4)), DigitsVal(SubSeq(s, 6, 7)), DigitsVal(SubSeq(s, 9, 10)),
                tm[1], tm[2], tm[3])

\* a parser that wants the time of day written out: it differs from
\* datetime.fromisoformat on the ten characters of a date alone
DateTimeFromIsoWithTime(x) ==
  IF x.t # "str" THEN Raise("TypeError")
  ELSE IF ~IsoDatePart(x.str) \/ Len(x.str) = 10 THEN Raise("ValueError")
  ELSE DateTimeAt(x.str, IsoTimePart(SubSeq(x.str, 12, Len(x.str))))

\* datetime.fromisoformat(x): YYYY-MM-DD[*HH[:MM[:SS]]], * any one character
DateTimeFromIso(x) ==
  IF x.t # "str" THEN Raise("TypeError")
  ELSE IF ~IsoDatePart(x.str) THEN Raise("ValueError")
  ELSE DateTimeAt(x.str, IF Len(x.str) = 10 THEN <<0, 0, 0>>
                         ELSE IsoTimePart(SubSeq(x.str, 12, Len(x.str))))

DateStr(v) == Pad(NatStr(v[1]), 4) \o "-" \o Pad(NatStr(v[2]), 2) \o "-" \o Pad(NatStr(v[3]), 2)

DateTimeStr(v) ==
  DateStr(v) \o " " \o Pad(NatStr(v[4]), 2) \o ":" \o Pad(NatStr(v[5]), 2) \o ":" \o Pad(NatStr(v[6]), 2)

\* repr(x) and str(x)
RECURSIVE PyRepr(_)
RECURSIVE JoinRepr(_, _)
RECURSIVE JoinPairs(_, _)
JoinRepr(items, i) ==
  IF i > Len(items) THEN ""
  ELSE (IF i > 1 THEN ", " ELSE "") \o PyRepr(items[i]) \o JoinRepr(items, i + 1)

JoinPairs(pairs, i) ==
  IF i > Len(pairs) THEN ""
  ELSE (IF i > 1 THEN ", " ELSE "") \o PyRepr(pairs[i][1]) \o ": " \o PyRepr(pairs[i][2])
         \o JoinPairs(pairs, i + 1)

PyRepr(x) ==
  CASE x.t = "null" -> "None"
    [] x.t = "str" -> "'" \o x.str \o "'"
    [] x.t = "int" -> IntStr(x.int)
    [] x.t = "float" -> FloatStr(x.float[1], x.float[2])
    [] x.t = "date" ->
         "datetime.date(" \o NatStr(x.date[1]) \o ", " \o NatStr(x.date[2]) \o ", " \o NatStr(x.date[3]) \o ")"
    [] x.t = "datetime" ->
         "datetime.datetime(" \o NatStr(x.datetime[1]) \o ", " \o NatStr(x.datetime[2]) \o ", " \o NatStr(x.datetime[3])
           \o ", " \o NatStr(x.datetime[4]) \o ", " \o NatStr(x.datetime[5])
           \o (IF x.datetime[6] # 0 THEN ", " \o NatStr(x.datetime[6]) ELSE "") \o ")"
    [] x.t = "seq" -> "[" \o JoinRepr(x.seq, 1) \o "]"
    [] x.t = "map" -> "{" \o JoinPairs(x.map, 1) \o "}"

PyStr(x) ==
  CASE x.t = "str" -> x.str
    [] x.t = "date" -> DateStr(x.date)
    [] x.t = "datetime" -> DateTimeStr(x.datetime)
    [] OTHER -> PyRepr(x)

(***************************************************************************)
(* dict and list primitives                                                *)
(***************************************************************************)
\* Python ==, as a dict compares keys: 1 == 1.0, everything else by type and value
PyEq(a, b) ==
  CASE a.t = "int" /\ b.t = "float" -> b.float = <<a.int, 0>>
    [] a.t = "float" /\ b.t = "int" -> a.float = <<b.int, 0>>
    [] OTHER -> a = b

Hashable(k) == k.t \notin {"seq", "map"}

KeyIndex(pairs, k) == FirstOf({j \in 1..Len(pairs) : PyEq(pairs[j][1], k)})

ValueAt(pairs, j) == IF j = 0 THEN None ELSE pairs[j][2]

\* dict.get(k)
DictGet(pairs, k) ==
  IF ~Hashable(k) THEN Raise("TypeError") ELSE ValueAt(pairs, KeyIndex(pairs, k))

SetAt(pairs, j, k, val) ==
  IF j = 0 THEN Append(pairs, <<k, val>>) ELSE [pairs EXCEPT ![j] = <<pairs[j][1], val>>]

\* d[k] = val
DictSet(pairs, k, val) == SetAt(pairs, KeyIndex(pairs, k), k, val)

PopAt(pairs, j) ==
  IF j = 0 THEN pairs ELSE SubSeq(pairs, 1, j - 1) \o SubSeq(pairs, j + 1, Len(pairs))

\* d.pop(k)
DictPop(pairs, k) == PopAt(pairs, KeyIndex(pairs, k))

\* item idx (from 0) of a list or a str of n items
ItemAt(base, idx, n) ==
  IF idx < 0 \/ idx >= n THEN Raise("IndexError")
  ELSE IF base.t = "seq" THEN base.seq[idx + 1]
  ELSE S(SubSeq(base.str, idx + 1, idx + 1))

Size(base) == IF base.t = "seq" THEN Len(base.seq) ELSE Len(base.str)

\* base[i] for a base that is no dict
Subscript(base, i) ==
  IF base.t \notin {"seq", "str"} THEN Raise("TypeError")
  ELSE ItemAt(base, IF i < 0 THEN i + Size(base) ELSE i, Size(base))

(***************************************************************************)
(* Configuration._verify_keytypes                                          *)
(***************************************************************************)
\* the loop that turns the date keys of a dict into datetime keys, in place
RECURSIVE ConvertDateKeys(_, _, _)
ConvertDateKeys(pairs, keys, i) ==
  IF i > Len(keys) THEN pairs
  ELSE LET key == keys[i]
           newkey == DateTime(key.date[1], key.date[2], key.date[3], 0, 0, 0)
       IN IF key.t = "date"
          THEN ConvertDateKeys(DictPop(DictSet(pairs, newkey, DictGet(pairs, key)), key), keys, i + 1)
          ELSE ConvertDateKeys(pairs, keys, i + 1)

KeysOf(pairs) == [j \in 1..Len(pairs) |-> pairs[j][1]]
ValuesOf(pairs) == [j \in 1..Len(pairs) |-> pairs[j][2]]

\* [exc |-> "" or the exception raised, data |-> data as the call leaves it]
RECURSIVE VerifyKeytypes(_)
RECURSIVE VerifyEntries(_, _)
VerifyEntries(items, i) ==
  IF i > Len(items) THEN [exc |-> "", items |-> items]
  ELSE LET r == VerifyKeytypes(items[i])
           items1 == [items EXCEPT ![i] = r.data]
       IN IF r.exc # "" THEN [exc |-> r.exc, items |-> items1]
          ELSE VerifyEntries(items1, i + 1)

VerifyKeytypes(data) ==
  CASE data.t = "map" ->
         IF Len(data.map) = 0 THEN [exc |-> "StopIteration", data |-> data]
         ELSE LET firstkey == data.map[1][1]
                  isdate == firstkey.t = "date"
                  pairs == IF isdate THEN ConvertDateKeys(data.map, KeysOf(data.map), 1) ELSE data.map
                  keytype == IF isdate THEN "datetime" ELSE firstkey.t
                  ok == \A j \in 1..Len(pairs) : pairs[j][1].t = keytype
                  r == VerifyEntries(ValuesOf(pairs), 1)
              IN IF ~ok THEN [exc |-> "Exception:KeyType", data |-> Dict(pairs)]
                 ELSE [exc |-> r.exc,
                       data |-> Dict([j \in 1..Len(pairs) |-> <<pairs[j][1], r.items[j]>>])]
    [] data.t = "seq" ->
         LET r == VerifyEntries(data.seq, 1)
         IN [exc |-> r.exc, data |-> List(r.items)]
    [] OTHER -> [exc |-> "", data |-> data]

(***************************************************************************)
(* Configuration._locate_sub_entry, _value, _substitute_macros             *)
(***************************************************************************)
\* the if/elif chain on the type of the first key of the dict
IndexKey(key, firstkey) ==
  CASE firstkey.t = "str" -> key
    [] firstkey.t = "float" -> PyFloat(key)
    [] firstkey.t = "int" -> PyInt(key)
    [] firstkey.t = "datetime" -> IF key.t = "datetime" THEN key ELSE DateTimeFromIso(key)
    [] firstkey.t = "date" -> DateFromIso(key)
    [] OTHER -> Raise("Exception:UnsupportedKeyType")

\* base.get(indexkey)
GetEntry(pairs, indexkey) ==
  IF IsRaise(indexkey) THEN indexkey ELSE DictGet(pairs, indexkey)

\* base[indexkey]
IndexEntry(base, indexkey) ==
  IF IsRaise(indexkey) THEN indexkey ELSE Subscript(base, indexkey.int)

LocateSubEntry(key, base) ==
  IF base.t = "null" THEN None
  ELSE IF base.t = "map"
  THEN IF Len(base.map) = 0 THEN Raise("StopIteration")
       ELSE GetEntry(base.map, IndexKey(key, base.map[1][1]))
  ELSE IndexEntry(base, PyInt(key))

EnvAt(env, j) == IF j = 0 THEN None ELSE S(env[j][2])

\* os.environ.get(name)
EnvGet(env, name) == EnvAt(env, FirstOf({j \in 1..Len(env) : env[j][1] = name}))

\* a normalisation that rewrites only the first occurrence of each alias
RECURSIVE NormaliseFirstOccurrence(_, _, _)
NormaliseFirstOccurrence(key, delims, i) ==
  IF i >= Len(delims) THEN key
  ELSE NormaliseFirstOccurrence(ReplaceFirst(key, delims[i], delims[Len(delims)]), delims, i + 1)

\* the key with every delimiter but the last replaced by the last
RECURSIVE NormaliseDelimiters(_, _, _)
NormaliseDelimiters(key, delims, i) ==
  IF i >= Len(delims) THEN key
  ELSE NormaliseDelimiters(ReplaceAll(key, delims[i], delims[Len(delims)]), delims, i + 1)

\* the loop over keys[:-1]
RECURSIVE Descend(_, _, _)
Descend(keys, i, keybase) ==
  IF i >= Len(keys) \/ IsRaise(keybase) THEN keybase
  ELSE Descend(keys, i + 1, LocateSubEntry(S(keys[i]), keybase))

\* the last key of a path, looked up where the loop over keys[:-1] arrived
LastEntry(key, keybase) ==
  IF IsRaise(keybase) THEN keybase
  ELSE IF keybase.t # "null" THEN LocateSubEntry(S(key), keybase)
  ELSE None

\* the entry for the keys a string key splits into
KeysEntry(keys, base) ==
  IF Len(keys) < 2 THEN LocateSubEntry(S(keys[1]), base)
  ELSE LastEntry(keys[Len(keys)], Descend(keys, 1, base))

\* user_val of _value before macro substitution
UserVal(key, base, delims) ==
  IF key.t # "str" THEN LocateSubEntry(key, base)
  ELSE IF Len(delims) = 0 THEN Raise("IndexError")
  ELSE IF delims[Len(delims)] = "" THEN Raise("ValueError")
  ELSE KeysEntry(Split(NormaliseDelimiters(key.str, delims, 1), delims[Len(delims)]), base)

RECURSIVE SubstituteMacros(_, _, _, _)

\* a _value that returns user_val as the tree holds it
Unsubstituted(user_val, self, depth) == user_val

\* _substitute_macros(user_val) at the end of _value
\* self: [order, delims, full, env]; depth: the nesting of _value calls
Substituted(user_val, self, depth) ==
  IF IsRaise(user_val) \/ user_val.t # "str" THEN user_val
  ELSE SubstituteMacros(user_val.str, self, depth, 1)

Value(key, full_registry, self, depth) ==
  IF depth > MaxDepth THEN Raise("RecursionError")
  ELSE Substituted(UserVal(key, full_registry, self.delims), self, depth)

\* a for-loop body that reads the environment for 'int' and the document for 'env'
MacroFromOtherSource(source, macrokey, self, depth) ==
  CASE source = "int" -> EnvGet(self.env, macrokey)
    [] source = "env" -> Value(S(macrokey), self.full, self, depth + 1)
    [] OTHER -> Raise("ValueError")

\* the body of the for loop over self._macro_expand_order
MacroFrom(source, macrokey, self, depth) ==
  CASE source = "int" -> Value(S(macrokey), self.full, self, depth + 1)
    [] source = "env" -> EnvGet(self.env, macrokey)
    [] OTHER -> Raise("ValueError")

\* the for loop over self._macro_expand_order, from its i-th source
RECURSIVE MacroLookup(_, _, _, _)
FirstFound(macro, macrokey, self, depth, i) ==
  IF macro.t # "null" THEN macro ELSE MacroLookup(macrokey, self, depth, i + 1)

MacroLookup(macrokey, self, depth, i) ==
  IF i > Len(self.order) THEN None
  ELSE FirstFound(MacroFrom(self.order[i], macrokey, self, depth), macrokey, self, depth, i)

\* the end of one pass of the while loop: the token macrostr replaced by the value found
Replaced(fullkey, macrostr, macro, self, depth, pass) ==
  IF IsRaise(macro) \/ macro.t = "diverge" THEN macro
  ELSE IF macro.t = "null" THEN Raise("Exception:UnresolvedMacro")
  ELSE SubstituteMacros(ReplaceFirst(fullkey, macrostr, PyStr(macro)), self, depth, pass + 1)

\* one pass of the while loop for the token at startidx..endidx+1
Pass(fullkey, startidx, endidx, self, depth, pass) ==
  IF endidx = 0 THEN Raise("Exception:MacroSyntax")
  ELSE Replaced(fullkey, SubSeq(fullkey, startidx, endidx + 1),
                MacroLookup(Strip(SubSeq(fullkey, startidx + 2, endidx - 1)), self, depth, 1),
                self, depth, pass)

PassAt(fullkey, startidx, self, depth, pass) ==
  IF startidx = 0 THEN S(fullkey)
  ELSE IF pass > MaxPasses THEN Diverges
  ELSE Pass(fullkey, startidx, Find(fullkey, ")$", startidx + 1), self, depth, pass)

\* the while loop, at its pass-th pass over the string fullkey
SubstituteMacros(fullkey, self, depth, pass) ==
  PassAt(fullkey, Find(fullkey, "$(", 1), self, depth, pass)

(***************************************************************************)
(* The documents, files, environments and keys the calls are made with     *)
(***************************************************************************)
DocMain ==
  Dict(<< <<S("r"), S("/d")>>,
          <<S("c"), Dict(<< <<S("f"), S("$(r)$/f")>>,
                            <<S("g"), S("$(u)$/g")>>,
                            <<S("d"), Dict(<< <<S("e"), S("deep")>> >>)>>,
                            <<S("n"), I(5)>> >>)>>,
          <<S("l"), List(<<S("x"), S("y"), S("z")>>)>>,
          <<S("v"), Dict(<< <<Date(2020, 10, 20), S("a")>>, <<Date(2021, 3, 9), S("b")>> >>)>>,
          <<S("w"), Dict(<< <<Fl(350, 0), S("hi")>>, <<Fl(3005, 1), S("lo")>> >>)>>,
          <<S("i"), Dict(<< <<I(1), S("one")>>, <<I(2), S("two")>> >>)>>,
          <<S("1"), S("top")>>,
          <<S("m"), S("$(r)$/m")>>,
          <<S("a"), S("$(m)$/a")>>,
          <<S("x"), S("$(s)$/x")>>,
          <<S("k"), S("$(k)$")>>,
          <<S("t"), S("$(r)$+$(r)$")>> >>)

\* a date key before a datetime key, inside a sequence
DocDateFirst ==
  Dict(<< <<S("q"), List(<< Dict(<< <<Date(2020, 10, 20), S("a")>>,
                                    <<DateTime(2021, 3, 9, 12, 0, 0), S("b")>> >>) >>)>> >>)

\* a datetime key before a date key
DocDateTimeFirst ==
  Dict(<< <<S("v"), Dict(<< <<DateTime(2021, 3, 9, 12, 0, 0), S("b")>>,
                            <<Date(2020, 10, 20), S("a")>> >>)>> >>)

\* a string key and an integer key at one level
DocMixed == Dict(<< <<S("a"), S("x")>>, <<I(2), S("y")>> >>)

\* the same, in a mapping inside a sequence
DocSeqMixed == Dict(<< <<S("q"), List(<< S("x"), Dict(<< <<S("a"), S("x")>>, <<I(2), S("y")>> >>) >>)>> >>)

\* an empty mapping
DocEmptyMap == Dict(<< <<S("r"), S("/d")>>, <<S("e"), Dict(<<>>)>> >>)

\* the files that exist, by name; any other name is a file that does not exist
FileNames == <<"main.yaml", "mixed.yaml", "none.yaml">>
FileExists(name) == name \in {"main.yaml", "mixed.yaml"}
FileDoc(name) == IF name = "main.yaml" THEN DocMain ELSE DocMixed

Texts == <<DocMain, DocDateFirst, DocDateTimeFirst, DocSeqMixed, DocEmptyMap>>

UserValues == <<DocEmptyMap, DocMain>>

LoadSubkeys == <<None, S("c"), S("m")>>

SubkeyNames == <<"c", "l", "w", "m", "zz">>

Envs == << <<>>, << <<"r", "/e">> >>, << <<"u", "/u">>, <<"s", "$(s)$">> >> >>

Precedences ==
  << <<"int", "env">>, <<"env", "int">>, <<"int">>, <<"env">>, <<"int", "int">>,
     <<>>, <<"int", "env", "int">>, <<"cfg">> >>

Delimiters == << <<"/">>, <<".", "/">>, <<"/", ".">> >>

Keys ==
  << S("r"), S("c/f"), S("c/g"), S("f"), S("m"), S("a"), S("x"), S("k"), S("t"),
     S("c/d/e"), S("c.d.e"), S("c.d/e"),
     S("l/1"), S("l/3"), S("l/-1"),
     S("v/2020-10-20"), S("v/2020-10-20T00:00:00"),
     S("zz"), S("c/zz"), S("zz/a/b"), S("e/a"),
     S("1"), S("350.0"),
     I(1), I(350), Fl(350, 0), Fl(15, 1), List(<<S("c"), S("f")>>) >>

Range(seq) == {seq[j] : j \in 1..Len(seq)}

(***************************************************************************)
(* Configuration objects                                                   *)
(***************************************************************************)
\* Configuration(): the object __init__ leaves when it is given no file and no text
NewConfiguration ==
  [filename |-> "", full |-> None, view |-> None,
   order |-> <<"env", "int">>, delims |-> <<"/">>]

\* what the methods of object r read of self, with the process environment
Self(r) ==
  [order |-> regs[r].order, delims |-> regs[r].delims, full |-> regs[r].full, env |-> environ]

Called(op, r, key, doc, out) == [op |-> op, reg |-> r, key |-> key, doc |-> doc, out |-> out]

\* a run is its calls and then a lookup: __getitem__ leaves every object and the
\* environment as they are, so a call after a lookup is the call before it
Looked == last.op = "getitem"

CanCall == calls < MaxCalls /\ ~Looked

\* the end of a call of load or load_from_text: object r as the call leaves it, and what it returns or raises
Loaded(r, op, subkey, doc, reg, out) ==
  /\ regs' = [regs EXCEPT ![r] = reg]
  /\ last' = Called(op, r, subkey, doc, out)

\* self._registry = self._value(subkey, self._registry)
Narrowed(r, op, subkey, doc, loaded, selected) ==
  IF IsRaise(selected) \/ selected.t = "diverge"
  THEN Loaded(r, op, subkey, doc, loaded, selected)
  ELSE Loaded(r, op, subkey, doc, [loaded EXCEPT !.view = selected], selected)

\* the part of load and load_from_text after self._verify_keytypes
Verified(r, op, subkey, doc, exc, loaded) ==
  IF exc # "" THEN Loaded(r, op, subkey, doc, loaded, Raise(exc))
  ELSE IF subkey.t = "null" THEN Loaded(r, op, subkey, doc, loaded, loaded.view)
  ELSE Narrowed(r, op, subkey, doc, loaded,
                Value(subkey, loaded.view,
                      [order |-> loaded.order, delims |-> loaded.delims,
                       full |-> loaded.full, env |-> environ], 0))

\* _verify_keytypes changes the document in place: both fields refer to it
Assigned(r, op, filename, subkey, doc, checked) ==
  Verified(r, op, subkey, doc, checked.exc,
           [regs[r] EXCEPT !.filename = filename, !.full = checked.data, !.view = checked.data])

\* the part of load and load_from_text after the document is parsed
LoadDocument(r, op, filename, doc, subkey) ==
  Assigned(r, op, filename, subkey, doc, VerifyKeytypes(doc))

Load(r, file, subkey) ==
  /\ CanCall
  /\ calls' = calls + 1
  /\ environ' = environ
  /\ IF FileExists(file)
     THEN LoadDocument(r, "load", file, FileDoc(file), subkey)
     ELSE /\ regs' = [regs EXCEPT ![r] = [@ EXCEPT !.filename = "", !.full = None, !.view = None]]
          /\ last' = Called("load", r, subkey, None, Raise("Exception:LoadError"))

LoadFromText(r, text, subkey) ==
  /\ CanCall
  /\ calls' = calls + 1
  /\ environ' = environ
  /\ LoadDocument(r, "load_from_text", regs[r].filename, text, subkey)

SetValues(r, values) ==
  /\ CanCall
  /\ calls' = calls + 1
  /\ environ' = environ
  /\ regs' = [regs EXCEPT ![r] = [@ EXCEPT !.filename = "", !.full = values, !.view = values]]
  /\ last' = Called("set_values", r, None, values, None)

SetMacrosPrecedenceOrder(r, precedence) ==
  LET accepted == /\ Len(precedence) \in {1, 2}
                  /\ \A j \in 1..Len(precedence) : precedence[j] \in {"int", "env"}
      arg == List([j \in 1..Len(precedence) |-> S(precedence[j])])
  IN /\ CanCall
     /\ calls' = calls + 1
     /\ environ' = environ
     /\ IF accepted
        THEN /\ regs' = [regs EXCEPT ![r] = [@ EXCEPT !.order = precedence]]
             /\ last' = Called("set_macros_precedence_order", r, arg, None, None)
        ELSE /\ regs' = regs
             /\ last' = Called("set_macros_precedence_order", r, arg, None, Raise("AssertionError"))

SetKeyDelimiters(r, delimiters) ==
  /\ CanCall
  /\ calls' = calls + 1
  /\ environ' = environ
  /\ regs' = [regs EXCEPT ![r] = [@ EXCEPT !.delims = delimiters]]
  /\ last' = Called("set_key_delimiters", r,
                    List([j \in 1..Len(delimiters) |-> S(delimiters[j])]), None, None)

\* the part of subkey after self._value(subkeyname, self._registry)
SubkeyOf(r, subkeyname, found) ==
  IF IsRaise(found) \/ found.t = "diverge"
  THEN /\ regs' = regs
       /\ last' = Called("subkey", r, S(subkeyname), None, found)
  ELSE IF found.t \notin {"map", "seq", "str"}
  THEN /\ regs' = regs
       /\ last' = Called("subkey", r, S(subkeyname), None, Raise("AssertionError"))
  ELSE /\ regs' = Append(regs, [NewConfiguration EXCEPT !.full = regs[r].full, !.view = found,
                                                        !.filename = regs[r].filename])
       /\ last' = Called("subkey", r, S(subkeyname), None, I(Len(regs) + 1))

Subkey(r, subkeyname) ==
  /\ CanCall
  /\ Len(regs) < MaxRegs
  /\ calls' = calls + 1
  /\ environ' = environ
  /\ SubkeyOf(r, subkeyname, Value(S(subkeyname), regs[r].view, Self(r), 0))

\* a __getitem__ that keeps what it resolved as the view of the object
GetItemKeeping(r, key) ==
  /\ ~Looked
  /\ last' = Called("getitem", r, key, None, Value(key, regs[r].view, Self(r), 0))
  /\ regs' = [regs EXCEPT ![r] = [@ EXCEPT !.view = Value(key, regs[r].view, Self(r), 0)]]
  /\ UNCHANGED <<environ, calls>>

GetItem(r, key) ==
  /\ ~Looked
  /\ last' = Called("getitem", r, key, None, Value(key, regs[r].view, Self(r), 0))
  /\ UNCHANGED <<regs, environ, calls>>

\* the process environment is changed from outside the object
SetEnv(env) ==
  /\ CanCall
  /\ calls' = calls + 1
  /\ environ' = env
  /\ regs' = regs
  /\ last' = Called("setenv", 0, None, None, None)

\* Configuration(macro_precedence_order = ..., key_delimiters = ...)
Constructed ==
  << NewConfiguration,
     [NewConfiguration EXCEPT !.order = <<"int", "env">>, !.delims = <<".", "/">>] >>

Init ==
  /\ \E made \in Range(Constructed) : regs = <<made>>
  /\ environ \in Range(Envs)
  /\ calls = 0
  /\ last = Called("init", 1, None, None, None)

LoadCall ==
  \E r \in 1..Len(regs), file \in Range(FileNames), subkey \in Range(LoadSubkeys) :
    Load(r, file, subkey)

LoadFromTextCall ==
  \E r \in 1..Len(regs), text \in Range(Texts), subkey \in Range(LoadSubkeys) :
    LoadFromText(r, text, subkey)

SetValuesCall == \E r \in 1..Len(regs), values \in Range(UserValues) : SetValues(r, values)

SetMacrosPrecedenceOrderCall ==
  \E r \in 1..Len(regs), precedence \in Range(Precedences) : SetMacrosPrecedenceOrder(r, precedence)

SetKeyDelimitersCall ==
  \E r \in 1..Len(regs), delimiters \in Range(Delimiters) : SetKeyDelimiters(r, delimiters)

SubkeyCall == \E r \in 1..Len(regs), subkeyname \in Range(SubkeyNames) : Subkey(r, subkeyname)

GetItemCall == \E r \in 1..Len(regs), key \in Range(Keys) : GetItem(r, key)

SetEnvCall == \E env \in Range(Envs) : SetEnv(env)

Next ==
  \/ LoadCall
  \/ LoadFromTextCall
  \/ SetValuesCall
  \/ SetMacrosPrecedenceOrderCall
  \/ SetKeyDelimitersCall
  \/ SubkeyCall
  \/ GetItemCall
  \/ SetEnvCall

Spec == Init /\ [][Next]_vars

(***************************************************************************)
(* What the properties below read of the last call                         *)
(***************************************************************************)
IsGet == last.op = "getitem"
IsLoad == last.op \in {"load", "load_from_text"}
Returned == ~IsRaise(last.out) /\ last.out.t # "diverge"

\* the object the last call was made on
Obj == regs[last.reg]

\* the keys a string key names under the delimiters of the object
Segments(key, delims) == Split(NormaliseDelimiters(key, delims, 1), delims[Len(delims)])

HasMacro(s) == Find(s, "$(", 1) > 0

\* a value no macro substitution changes
MacroFree(x) == x.t # "str" \/ ~HasMacro(x.str)

IsScalar(x) == x.t \in {"str", "int", "float", "date", "datetime"}

(***************************************************************************)
(* C1. A macro is resolved from the sources in the precedence order of the *)
(* object: the value substituted is that of the first source that yields a *)
(* non-null value, and a macro no source yields a value for fails with the *)
(* unresolved-macro error. Stated for a stored string with one macro token *)
(* whose sources yield nothing or a macro-free scalar.                     *)
(***************************************************************************)
\* the stored value a get reads, before macro substitution
Stored == UserVal(last.key, Obj.view, Obj.delims)

TokenStart(s) == Find(s, "$(", 1)
TokenEnd(s) == Find(s, ")$", TokenStart(s) + 1)
TokenKey(s) == Strip(SubSeq(s, TokenStart(s) + 2, TokenEnd(s) - 1))

\* s holds exactly one macro token
OneToken(s) ==
  /\ TokenStart(s) > 0
  /\ TokenEnd(s) > 0
  /\ ~HasMacro(SubSeq(s, 1, TokenStart(s) - 1) \o SubSeq(s, TokenEnd(s) + 2, Len(s)))

\* what each source holds for the macro key k
SourceValue(source, k) ==
  IF source = "int" THEN UserVal(S(k), Obj.full, Obj.delims) ELSE EnvGet(environ, k)

Yields(source, k) == SourceValue(source, k).t # "null"

PrecedenceCase ==
  /\ IsGet
  /\ Stored.t = "str"
  /\ OneToken(Stored.str)
  /\ \A source \in {"int", "env"} :
       LET v == SourceValue(source, TokenKey(Stored.str))
       IN v.t = "null" \/ (IsScalar(v) /\ MacroFree(v))

FirstYielding(order, k) == FirstOf({i \in 1..Len(order) : Yields(order[i], k)})

PrecedenceExpected(s, order) ==
  IF FirstYielding(order, TokenKey(s)) = 0 THEN Raise("Exception:UnresolvedMacro")
  ELSE S(SubSeq(s, 1, TokenStart(s) - 1)
         \o PyStr(SourceValue(order[FirstYielding(order, TokenKey(s))], TokenKey(s)))
         \o SubSeq(s, TokenEnd(s) + 2, Len(s)))

MacroPrecedenceRespected ==
  PrecedenceCase => last.out = PrecedenceExpected(Stored.str, Obj.order)

\* witness: both sources hold the key and the object prefers the internal one
MacroPrecedenceWitness ==
  /\ PrecedenceCase
  /\ Obj.order = <<"int", "env">>
  /\ Yields("int", TokenKey(Stored.str))
  /\ Yields("env", TokenKey(Stored.str))
  /\ SourceValue("int", TokenKey(Stored.str)) # SourceValue("env", TokenKey(Stored.str))
  /\ Returned

(***************************************************************************)
(* C2. An object made by load(source, subkey) or by subkey() has the whole *)
(* loaded document as its full tree and, as its view, the subtree its name *)
(* selects in the view it was made from.                                   *)
(***************************************************************************)
SubkeyViewIsSubtree ==
  /\ (last.op = "subkey" /\ last.out.t = "int") =>
       /\ regs[last.out.int].full = Obj.full
       /\ regs[last.out.int].view = UserVal(last.key, Obj.view, Obj.delims)
  /\ (IsLoad /\ Returned /\ last.key.t # "null") =>
       /\ Obj.full = VerifyKeytypes(last.doc).data
       /\ Obj.view = UserVal(last.key, Obj.full, Obj.delims)

(***************************************************************************)
(* C3. A path that resolves to a macro-free scalar resolves to the same    *)
(* scalar however its delimiters are written, each one being any of the    *)
(* delimiter characters of the object, provided no key of the document      *)
(* contains a delimiter character.                                          *)
(***************************************************************************)
\* every way of writing the delimiters of s with the characters in ds
RECURSIVE Rewrites(_, _)
Rewrites(s, ds) ==
  IF s = "" THEN {""}
  ELSE IF SubSeq(s, 1, 1) \in ds
       THEN {d \o rest : d \in ds, rest \in Rewrites(SubSeq(s, 2, Len(s)), ds)}
       ELSE {SubSeq(s, 1, 1) \o rest : rest \in Rewrites(SubSeq(s, 2, Len(s)), ds)}

HasAnyOf(s, ds) == \E i \in 1..Len(s) : SubSeq(s, i, i) \in ds

RECURSIVE NoDelimiterInKeys(_, _)
NoDelimiterInKeys(x, ds) ==
  CASE x.t = "map" ->
         \A j \in 1..Len(x.map) :
           /\ x.map[j][1].t = "str" => ~HasAnyOf(x.map[j][1].str, ds)
           /\ NoDelimiterInKeys(x.map[j][2], ds)
    [] x.t = "seq" -> \A j \in 1..Len(x.seq) : NoDelimiterInKeys(x.seq[j], ds)
    [] OTHER -> TRUE

DelimiterCase ==
  /\ IsGet
  /\ last.key.t = "str"
  /\ Len(Obj.delims) > 0
  /\ IsScalar(last.out)
  /\ Stored = last.out
  /\ MacroFree(last.out)
  /\ NoDelimiterInKeys(Obj.view, Range(Obj.delims))

AnyDelimiterSameValue ==
  DelimiterCase =>
    \A path \in Rewrites(last.key.str, Range(Obj.delims)) :
      Value(S(path), Obj.view, Self(last.reg), 0) = last.out

\* witness: a three-key path written with an alias and with the canonical delimiter
AnyDelimiterWitness ==
  /\ DelimiterCase
  /\ Len(Segments(last.key.str, Obj.delims)) = 3
  /\ HasAnyOf(last.key.str, {Obj.delims[1]})
  /\ HasAnyOf(last.key.str, {Obj.delims[Len(Obj.delims)]})
  /\ Obj.delims[1] # Obj.delims[Len(Obj.delims)]

(***************************************************************************)
(* C4. A key given as a list of two or more segments resolves to what the  *)
(* string of the segments joined by the delimiter resolves to.             *)
(***************************************************************************)
RECURSIVE Join(_, _)
Join(items, sep) ==
  IF Len(items) = 0 THEN ""
  ELSE IF Len(items) = 1 THEN items[1].str
  ELSE items[1].str \o sep \o Join(Tail(items), sep)

SegmentListCase ==
  /\ IsGet
  /\ last.key.t = "seq"
  /\ Len(last.key.seq) >= 2
  /\ \A j \in 1..Len(last.key.seq) : last.key.seq[j].t = "str"
  /\ Len(Obj.delims) > 0

SegmentListAsJoinedString ==
  SegmentListCase =>
    last.out = Value(S(Join(last.key.seq, Obj.delims[Len(Obj.delims)])), Obj.view, Self(last.reg), 0)

(***************************************************************************)
(* C5. An integer or float key resolves to what its string form resolves   *)
(* to, whatever the level it is looked up at.                              *)
(***************************************************************************)
NumberKeyAsString ==
  (IsGet /\ last.key.t \in {"int", "float"}) =>
    last.out = Value(S(PyStr(last.key)), Obj.view, Self(last.reg), 0)

(***************************************************************************)
(* C6. Loading accepts a document exactly when, at every mapping of every  *)
(* depth, the keys are of one type once date keys are counted as datetime  *)
(* keys, in whatever order the keys come; any other document is rejected   *)
(* by a failure of the load.                                               *)
(***************************************************************************)
NormalisedKeyType(k) == IF k.t = "date" THEN "datetime" ELSE k.t

RECURSIVE Homogeneous(_)
Homogeneous(x) ==
  CASE x.t = "map" ->
         /\ Cardinality({NormalisedKeyType(x.map[j][1]) : j \in 1..Len(x.map)}) <= 1
         /\ \A j \in 1..Len(x.map) : Homogeneous(x.map[j][2])
    [] x.t = "seq" -> \A j \in 1..Len(x.seq) : Homogeneous(x.seq[j])
    [] OTHER -> TRUE

AcceptsExactlyHomogeneous ==
  (IsLoad /\ last.doc.t # "null" /\ last.key.t = "null") =>
    /\ Homogeneous(last.doc) => (Returned /\ last.out = Obj.view)
    /\ ~Homogeneous(last.doc) => last.out = Raise("Exception:KeyType")

(***************************************************************************)
(* C7. After a load that succeeds no mapping has a date key left: each is  *)
(* stored as the datetime at midnight of that date, and the lookup of such *)
(* a key by its ISO date string and by its ISO datetime string both return *)
(* the value the document holds for it.                                    *)
(***************************************************************************)
RECURSIVE NoDateKeys(_)
NoDateKeys(x) ==
  CASE x.t = "map" ->
         \A j \in 1..Len(x.map) : x.map[j][1].t # "date" /\ NoDateKeys(x.map[j][2])
    [] x.t = "seq" -> \A j \in 1..Len(x.seq) : NoDateKeys(x.seq[j])
    [] OTHER -> TRUE

Midnight(d) == DateTime(d.date[1], d.date[2], d.date[3], 0, 0, 0)

\* the top-level entries of the loaded document that are mappings with a date key
DateKeyed(doc) ==
  {j \in 1..Len(doc.map) :
     /\ doc.map[j][1].t = "str"
     /\ doc.map[j][2].t = "map"
     /\ \E n \in 1..Len(doc.map[j][2].map) : doc.map[j][2].map[n][1].t = "date"}

DatePath(name, d, delims) == name \o delims[Len(delims)] \o DateStr(d.date)

DateKeyCase == IsLoad /\ Returned /\ last.doc.t = "map" /\ Len(Obj.delims) > 0

DateKeysBecomeDateTimes ==
  DateKeyCase =>
    /\ NoDateKeys(Obj.full)
    /\ \A j \in DateKeyed(last.doc) :
         \A n \in 1..Len(last.doc.map[j][2].map) :
           LET name == last.doc.map[j][1].str
               d == last.doc.map[j][2].map[n][1]
               held == last.doc.map[j][2].map[n][2]
           IN d.t = "date" =>
                /\ DictGet(DictGet(Obj.full.map, S(name)).map, Midnight(d)) = held
                /\ Value(S(DatePath(name, d, Obj.delims)), Obj.full, Self(last.reg), 0) = held
                /\ Value(S(DatePath(name, d, Obj.delims) \o "T00:00:00"), Obj.full, Self(last.reg), 0)
                     = held

\* witness: a document with date keys was loaded
DateKeysWitness ==
  /\ DateKeyCase
  /\ DateKeyed(last.doc) # {}
  /\ \E j \in DateKeyed(last.doc) : Len(last.doc.map[j][2].map) >= 2

(***************************************************************************)
(* C8. A segment looked up at a sequence of n elements is a zero-based     *)
(* index: an integer in 0..n-1 selects that element, and any integer       *)
(* outside 0..n-1 raises the index error.                                  *)
(***************************************************************************)
\* the level the last segment of a string key is looked up at
ParentLevel == Descend(Segments(last.key.str, Obj.delims), 1, Obj.view)

LastSegment == Segments(last.key.str, Obj.delims)[Len(Segments(last.key.str, Obj.delims))]

SequenceIndexCase ==
  /\ IsGet
  /\ last.key.t = "str"
  /\ Len(Obj.delims) > 0
  /\ ParentLevel.t = "seq"
  /\ ParseInt(LastSegment).t = "int"

ZeroBasedIndexing ==
  SequenceIndexCase =>
    IF ParseInt(LastSegment).int \in 0..(Len(ParentLevel.seq) - 1)
    THEN last.out = Substituted(ParentLevel.seq[ParseInt(LastSegment).int + 1], Self(last.reg), 0)
    ELSE last.out = Raise("IndexError")

(***************************************************************************)
(* C9. A load whose key-type validation fails leaves no partial state: the *)
(* full tree and the view of the object do not hold the rejected document. *)
(***************************************************************************)
ValidationFailed ==
  /\ IsLoad
  /\ last.doc.t # "null"
  /\ VerifyKeytypes(last.doc).exc # ""
  /\ IsRaise(last.out)

FailedLoadKeepsNothing ==
  ValidationFailed =>
    /\ Obj.full \notin {last.doc, VerifyKeytypes(last.doc).data}
    /\ Obj.view \notin {last.doc, VerifyKeytypes(last.doc).data}

(***************************************************************************)
(* C10. A lookup whose last segment is absent from the mapping it reaches, *)
(* or that reaches a null before its last segment, returns null and does   *)
(* not raise.                                                              *)
(***************************************************************************)
\* the level reached once the first n segments are resolved
LevelAfter(n) == Descend(SubSeq(Segments(last.key.str, Obj.delims), 1, n + 1), 1, Obj.view)

\* no key of the mapping is the one the segment names
AbsentFrom(segment, pairs) ==
  \/ Len(pairs) = 0
  \/ /\ ~IsRaise(IndexKey(S(segment), pairs[1][1]))
     /\ \A j \in 1..Len(pairs) : ~PyEq(IndexKey(S(segment), pairs[1][1]), pairs[j][1])

AbsentCase ==
  /\ IsGet
  /\ last.key.t = "str"
  /\ Len(Obj.delims) > 0
  /\ \/ ParentLevel.t = "map" /\ AbsentFrom(LastSegment, ParentLevel.map)
     \/ \E n \in 0..(Len(Segments(last.key.str, Obj.delims)) - 1) : LevelAfter(n).t = "null"

AbsentIsNotFound == AbsentCase => last.out = None

(***************************************************************************)
(* C11. The object subkey() returns starts with the macro precedence order *)
(* and the key delimiters of the object it was made from, and from then on *)
(* a change of these settings on one of the two leaves the other's alone.  *)
(***************************************************************************)
SubkeyMade == last.op = "subkey" /\ last.out.t = "int"

SubkeyStartsWithParentSettings ==
  SubkeyMade =>
    /\ regs[last.out.int].order = Obj.order
    /\ regs[last.out.int].delims = Obj.delims

(***************************************************************************)
(* C12. set_macros_precedence_order accepts exactly the orders of one or   *)
(* two distinct elements of {int, env}; any other argument is rejected     *)
(* with an error and leaves the precedence order of the object unchanged.  *)
(***************************************************************************)
DistinctSources(order) ==
  /\ Len(order) \in {1, 2}
  /\ \A j \in 1..Len(order) : order[j] \in {S("int"), S("env")}
  /\ \A i, j \in 1..Len(order) : order[i] = order[j] => i = j

PrecedenceSet == last'.op = "set_macros_precedence_order"

OnlyDistinctOrdersAccepted ==
  [][PrecedenceSet =>
       IF DistinctSources(last'.key.seq)
       THEN /\ ~IsRaise(last'.out)
            /\ regs'[last'.reg].order = [j \in 1..Len(last'.key.seq) |-> last'.key.seq[j].str]
       ELSE /\ IsRaise(last'.out)
            /\ regs' = regs]_vars

(***************************************************************************)
(* C13. subkey(name) returns an object only when the name resolves, in the *)
(* view, to a mapping or a sequence; when it resolves to a scalar or to    *)
(* nothing the call fails with an assertion.                               *)
(***************************************************************************)
SubkeyOnlyOfContainers ==
  /\ SubkeyMade => regs[last.out.int].view.t \in {"map", "seq"}
  /\ (last.op = "subkey" /\ (IsScalar(Stored) \/ Stored.t = "null")) =>
       last.out = Raise("AssertionError")

(***************************************************************************)
(* C14. The internal source is not itself macro-expanded: when the value   *)
(* the document holds for a macro key is a string with a placeholder, the  *)
(* inner lookup returns that string with the placeholder in it.            *)
(***************************************************************************)
\* the last get read a string whose first token names a key of the document
\* that holds a string with a placeholder
NestedMacroCase ==
  /\ IsGet
  /\ Stored.t = "str"
  /\ TokenStart(Stored.str) > 0
  /\ TokenEnd(Stored.str) > 0
  /\ SourceValue("int", TokenKey(Stored.str)).t = "str"
  /\ HasMacro(SourceValue("int", TokenKey(Stored.str)).str)

InternalSourceNotExpanded ==
  NestedMacroCase =>
    MacroFrom("int", TokenKey(Stored.str), Self(last.reg), 0)
      = SourceValue("int", TokenKey(Stored.str))

(***************************************************************************)
(* C15. Macro expansion terminates: every lookup returns a value or raises *)
(* whatever the document and the environment hold, a key or an environment *)
(* variable whose value names itself included.                             *)
(***************************************************************************)
EveryLookupEnds == last.out.t # "diverge"

(***************************************************************************)
(* C16. Lookups are read-only: a get or a subkey call, whether it returns  *)
(* a value, returns null or raises, leaves the full tree, the view, the    *)
(* precedence order and the delimiters of every existing object unchanged. *)
(***************************************************************************)
LookupsReadOnly ==
  [][last'.op \in {"getitem", "subkey"} =>
       \A r \in 1..Len(regs) : r \in 1..Len(regs') /\ regs'[r] = regs[r]]_vars

\* witness: a macro was expanded by a get on an object made by subkey
LookupsReadOnlyWitness ==
  /\ IsGet
  /\ last.reg = 2
  /\ Obj.view # Obj.full
  /\ Stored.t = "str"
  /\ HasMacro(Stored.str)
  /\ Returned
  /\ last.out # Stored

(***************************************************************************)
(* C17. A pass of the expansion replaces exactly one token, the one that   *)
(* starts at the first "$(" of the working string, and no other occurrence *)
(* of the same token text: a second occurrence is left for a later pass.   *)
(***************************************************************************)
Token(s) == SubSeq(s, TokenStart(s), TokenEnd(s) + 1)

\* the value the sources yield for the first token of s
TokenValue(s) == MacroLookup(TokenKey(s), Self(last.reg), 0, 1)

OnePassCase ==
  /\ IsGet
  /\ Stored.t = "str"
  /\ TokenStart(Stored.str) > 0
  /\ TokenEnd(Stored.str) > 0
  /\ IsScalar(TokenValue(Stored.str))

\* the working string after one pass over s
AfterOnePass(s) == ReplaceFirst(s, Token(s), PyStr(TokenValue(s)))

OnePassReplacesFirstToken ==
  OnePassCase =>
    /\ AfterOnePass(Stored.str)
         = SubSeq(Stored.str, 1, TokenStart(Stored.str) - 1)
           \o PyStr(TokenValue(Stored.str))
           \o SubSeq(Stored.str, TokenEnd(Stored.str) + 2, Len(Stored.str))
    /\ last.out = Substituted(S(AfterOnePass(Stored.str)), Self(last.reg), 0)

\* witness: the stored string holds the same token twice
OnePassWitness ==
  /\ OnePassCase
  /\ Find(Stored.str, Token(Stored.str), TokenEnd(Stored.str) + 2) > 0
  /\ HasMacro(AfterOnePass(Stored.str))
  /\ last.out.t = "str"

(***************************************************************************)
(* C18. A tree with an empty mapping is handled without a fault: the load  *)
(* accepts the empty mapping, and the lookup of a segment at an empty      *)
(* mapping returns null.                                                   *)
(***************************************************************************)
RECURSIVE HasEmptyMapping(_)
HasEmptyMapping(x) ==
  CASE x.t = "map" ->
         Len(x.map) = 0 \/ \E j \in 1..Len(x.map) : HasEmptyMapping(x.map[j][2])
    [] x.t = "seq" -> \E j \in 1..Len(x.seq) : HasEmptyMapping(x.seq[j])
    [] OTHER -> FALSE

EmptyMappingHandled ==
  /\ (IsLoad /\ last.key.t = "null" /\ HasEmptyMapping(last.doc) /\ Homogeneous(last.doc)) =>
       (Returned /\ Obj.full = last.doc)
  /\ (IsGet /\ last.key.t = "str" /\ Len(Obj.delims) > 0 /\ ParentLevel = Dict(<<>>)) =>
       last.out = None

(***************************************************************************)
(* C19. A string a lookup returns holds no "$(": when macro expansion      *)
(* returns, no opening of a placeholder is left in the result, whatever    *)
(* the substituted values held.                                            *)
(***************************************************************************)
NoTokenLeftInResult == (IsGet /\ last.out.t = "str") => ~HasMacro(last.out.str)

\* witness: the value substituted for a token was itself read from a string with a token
NoTokenLeftWitness ==
  /\ NestedMacroCase
  /\ last.out.t = "str"
  /\ ~HasMacro(last.out.str)
====
